---- MODULE Spec2Model ----
(***************************************************************************)
(* Directory JSON aggregators: merge.py (Key-Union) and merge_json.py      *)
(* (List-Collection).  One run is: list the source directory, filter the   *)
(* entries by the suffix ".json", open and parse each candidate, fold the  *)
(* parsed value into the accumulator, dump the accumulator to the          *)
(* destination and print the completion line.  A second run over the same  *)
(* directory is modelled to compare the two outputs.                       *)
(*                                                                         *)
(* A file name is a sequence of one-character strings.  The text of a file *)
(* is kept at the level of its JSON structure: [num |-> n], [null |-> _],  *)
(* [obj |-> <<<<key, text>>, ...>>] (members in textual order, a key may   *)
(* repeat), [arr |-> <<text, ...>>], and [bad |-> _] for text the decoder  *)
(* rejects.  Files are UTF-8 text.  A Python value is [int |-> n],         *)
(* [none |-> _], [dict |-> items] (insertion-ordered, keys unique) or      *)
(* [list |-> elements].                                                    *)
(***************************************************************************)
EXTENDS Integers, Sequences, FiniteSets, TLC

\* Largest number of entries of the source directory.
MaxEntries == 3

\* Largest listing after which the script is run a second time.
MaxRerunEntries == 2

(***************************************************************************)
(* Paths                                                                   *)
(***************************************************************************)
FolderPath(v) ==
    IF v = "union" THEN <<"data", "plans", "book14">> ELSE <<"Data", "plans">>

OutputPathInside(v) ==
    IF v = "union" THEN <<"data", "plans", "book14", "merged_output.json">>
    ELSE <<"Data", "plans", "merged_plans.json">>

OutputPath(v) ==
    IF v = "union" THEN <<"merged_output.json">> ELSE <<"Data", "merged_plans.json">>

\* The name the destination has as a directory entry.
OutputName(v) ==
    IF v = "union"
    THEN <<"m", "e", "r", "g", "e", "d", "_", "o", "u", "t", "p", "u", "t", ".", "j", "s", "o", "n">>
    ELSE <<"m", "e", "r", "g", "e", "d", "_", "p", "l", "a", "n", "s", ".", "j", "s", "o", "n">>

\* The destination is an entry of the directory the run scans.
DestInSource(v) ==
    SubSeq(OutputPath(v), 1, Len(OutputPath(v)) - 1) = FolderPath(v)

(***************************************************************************)
(* str.endswith and the candidate filter                                   *)
(***************************************************************************)
Suffix == <<".", "j", "s", "o", "n">>

EndsWith(s, suf) ==
    /\ Len(s) >= Len(suf)
    /\ SubSeq(s, Len(s) - Len(suf) + 1, Len(s)) = suf

Lower(c) ==
    CASE c = "J" -> "j" [] c = "S" -> "s" [] c = "O" -> "o" [] c = "N" -> "n"
      [] c = "T" -> "t" [] c = "X" -> "x" [] OTHER -> c

IsCandidateAnyCase(name) ==
    EndsWith([i \in 1..Len(name) |-> Lower(name[i])], Suffix)

IsCandidate(name) == EndsWith(name, Suffix)

(***************************************************************************)
(* Python dict and list operations                                         *)
(***************************************************************************)
ReservedKey == "merged_list"

HasKey(items, k) == \E i \in 1..Len(items) : items[i][1] = k

KeyPos(items, k) == CHOOSE i \in 1..Len(items) : items[i][1] = k

Get(items, k) == items[KeyPos(items, k)][2]

\* d[k] = v : an existing key keeps its position, a new key goes last.
DictSet(items, k, v) ==
    IF HasKey(items, k)
    THEN [items EXCEPT ![KeyPos(items, k)] = <<k, v>>]
    ELSE Append(items, <<k, v>>)

IsDict(x) == "dict" \in DOMAIN x
IsList(x) == "list" \in DOMAIN x

\* dict.update(other)
RECURSIVE Update(_, _)
Update(items, other) ==
    IF other = <<>> THEN items
    ELSE Update(DictSet(items, other[1][1], other[1][2]), Tail(other))

(***************************************************************************)
(* json.load and json.dump                                                 *)
(***************************************************************************)
IsValidJson(t) == "bad" \notin DOMAIN t

RECURSIVE Loads(_)
RECURSIVE LoadItems(_, _)
LoadItems(members, items) ==
    IF members = <<>> THEN items
    ELSE LoadItems(Tail(members),
                   DictSet(items, members[1][1], Loads(members[1][2])))
Loads(t) ==
    CASE "num" \in DOMAIN t -> [int |-> t.num]
      [] "null" \in DOMAIN t -> [none |-> TRUE]
      [] "arr" \in DOMAIN t -> [list |-> [i \in 1..Len(t.arr) |-> Loads(t.arr[i])]]
      [] "obj" \in DOMAIN t -> [dict |-> LoadItems(t.obj, <<>>)]

RECURSIVE Dumps(_)
Dumps(x) ==
    CASE "int" \in DOMAIN x -> [num |-> x.int]
      [] "none" \in DOMAIN x -> [null |-> TRUE]
      [] IsList(x) -> [arr |-> [i \in 1..Len(x.list) |-> Dumps(x.list[i])]]
      [] IsDict(x) ->
           [obj |-> [i \in 1..Len(x.dict) |-> <<x.dict[i][1], Dumps(x.dict[i][2])>>]]

(***************************************************************************)
(* The per-file step of the two scripts.  A run state st is a record       *)
(* [acc, stdout, opened, err]: the accumulator (the items of merged_data,  *)
(* or all_plans), the printed lines, the names passed to open() and the    *)
(* exception that ended the run ("none" while it runs).                    *)
(***************************************************************************)
NoError == "none"

\* merged_data.setdefault("merged_list", []).extend(data)
ExtendReserved(items, data) ==
    LET withKey == IF HasKey(items, ReservedKey) THEN items
                   ELSE Append(items, <<ReservedKey, [list |-> <<>>]>>)
        cur == Get(withKey, ReservedKey)
    IN IF IsList(cur)
       THEN [items |-> DictSet(withKey, ReservedKey, [list |-> cur.list \o data.list]),
             err |-> NoError]
       ELSE [items |-> items, err |-> "AttributeError"]

MergeDataScalars(items, data) ==
    IF IsDict(data) THEN [items |-> Update(items, data.dict), err |-> NoError]
    ELSE IF IsList(data) THEN ExtendReserved(items, data)
    ELSE ExtendReserved(items, [list |-> <<data>>])

\* merge.py: the isinstance branches on the parsed value.
MergeData(items, data) ==
    IF IsDict(data) THEN [items |-> Update(items, data.dict), err |-> NoError]
    ELSE IF IsList(data) THEN ExtendReserved(items, data)
    ELSE [items |-> items, err |-> NoError]

AppendPlanFlat(plans, data) ==
    IF IsList(data) THEN plans \o data.list ELSE Append(plans, data)

\* merge_json.py: all_plans.append(plan_data)
AppendPlan(plans, data) == Append(plans, data)

Accumulate(v, items, data) ==
    IF v = "union" THEN MergeData(items, data)
    ELSE [items |-> AppendPlan(items, data), err |-> NoError]

OnDecodeErrorRaise(st, name) == [st EXCEPT !.err = "JSONDecodeError"]

\* except json.JSONDecodeError: print one line naming the file.
OnDecodeError(st, name) == [st EXCEPT !.stdout = Append(@, [skipped |-> name])]

\* One iteration of the for loop over os.listdir.
ProcessEntry(v, st, e) ==
    IF ~IsCandidate(e.name) THEN st
    ELSE LET o == [st EXCEPT !.opened = @ \cup {e.name}]
         IN IF e.kind = "dir" THEN [o EXCEPT !.err = "IsADirectoryError"]
            ELSE IF ~IsValidJson(e.text) THEN OnDecodeError(o, e.name)
            ELSE LET r == Accumulate(v, o.acc, Loads(e.text))
                 IN [o EXCEPT !.acc = r.items, !.err = r.err]

CompletionLineCandidates(v, st) ==
    IF v = "union" THEN [mergedAll |-> TRUE] ELSE [merged |-> Cardinality(st.opened)]

\* The final print: merge_json.py reports len(all_plans).
CompletionLine(v, st) ==
    IF v = "union" THEN [mergedAll |-> TRUE] ELSE [merged |-> Len(st.acc)]

\* json.dump of the accumulator: an object for merge.py, an array for merge_json.py.
DumpAccumulator(v, items) ==
    IF v = "union" THEN Dumps([dict |-> items]) ELSE Dumps([list |-> items])

(***************************************************************************)
(* The inputs: directory entries and the texts of the files                *)
(***************************************************************************)
NameA == <<"a", ".", "j", "s", "o", "n">>
NameB == <<"b", ".", "j", "s", "o", "n">>
NameC == <<"c", ".", "j", "s", "o", "n">>
NameNotes == <<"n", ".", "t", "x", "t">>
NameUpper == <<"p", ".", "J", "S", "O", "N">>
Names == {NameA, NameB, NameC, NameNotes, NameUpper}

Num(n) == [num |-> n]
TextDupKey == [obj |-> << <<"k", Num(1)>>, <<"k", Num(2)>> >>]
TextNestedA == [obj |-> << <<"k", [obj |-> << <<"a", Num(1)>> >>]>> >>]
TextNestedB == [obj |-> << <<"j", Num(1)>>, <<"k", [obj |-> << <<"b", Num(2)>> >>]>> >>]
TextReservedList == [obj |-> << <<ReservedKey, [arr |-> <<Num(1)>>]>> >>]
TextReservedNum == [obj |-> << <<ReservedKey, Num(1)>> >>]
TextList == [arr |-> <<Num(1), Num(2)>>]
TextListOfObj == [arr |-> << [obj |-> << <<"k", Num(1)>> >>] >>]
TextNum == Num(1)
TextNull == [null |-> TRUE]
TextBad == [bad |-> TRUE]

JsonTexts == {TextDupKey, TextNestedA, TextNestedB, TextReservedList, TextReservedNum,
              TextList, TextListOfObj, TextNum, TextNull, TextBad}
OtherTexts == {TextDupKey}

File(n, t) == [name |-> n, kind |-> "file", text |-> t]
Subdir(n) == [name |-> n, kind |-> "dir", text |-> TextNull]

EntriesOf(n) ==
    {Subdir(n)} \cup {File(n, t) : t \in IF n \in {NameA, NameB, NameC} THEN JsonTexts ELSE OtherTexts}

\* The directories: at most MaxEntries entries, no name twice.
Directories ==
    UNION { { {f[n] : n \in S} :
              f \in {g \in [S -> UNION {EntriesOf(m) : m \in S}] : \A n \in S : g[n].name = n} } :
            S \in {T \in SUBSET Names : Cardinality(T) <= MaxEntries} }

\* The orders os.listdir may return the entries in.
Listings(d) ==
    {l \in [1..Cardinality(d) -> d] : \A i, j \in 1..Cardinality(d) : l[i] = l[j] => i = j}

NoFile == [absent |-> TRUE]

(***************************************************************************)
(* The state machine                                                       *)
(***************************************************************************)
VARIABLES variant, env, dir, run, pc, listing, idx, acc, stdout, opened, err,
          out, firstOut, firstListing

vars == <<variant, env, dir, run, pc, listing, idx, acc, stdout, opened, err,
          out, firstOut, firstListing>>

RunState == [acc |-> acc, stdout |-> stdout, opened |-> opened, err |-> err]

\* Either script is started once on a directory.  A missing source directory
\* has no entries; an unwritable destination is met with directories of at
\* most one entry.
Init ==
    /\ variant \in {"union", "list"}
    /\ env \in [srcExists : BOOLEAN, destWritable : BOOLEAN]
    /\ dir \in Directories
    /\ env.srcExists \/ dir = {}
    /\ env.destWritable \/ Cardinality(dir) <= 1
    /\ run = "first"
    /\ pc = "start"
    /\ listing = <<>>
    /\ idx = 1
    /\ acc = <<>>
    /\ stdout = <<>>
    /\ opened = {}
    /\ err = NoError
    /\ out = NoFile
    /\ firstOut = NoFile
    /\ firstListing = <<>>

\* os.listdir(folder_path): raises when the directory is missing.
ListDir ==
    /\ pc = "start"
    /\ IF env.srcExists
       THEN /\ listing' \in Listings(dir)
            /\ pc' = "loop"
            /\ err' = err
       ELSE /\ listing' = listing
            /\ pc' = "aborted"
            /\ err' = "FileNotFoundError"
    /\ UNCHANGED <<variant, env, dir, run, idx, acc, stdout, opened, out,
                   firstOut, firstListing>>

\* One iteration of the loop; an exception that is not caught ends the run.
LoopStep ==
    /\ pc = "loop"
    /\ idx <= Len(listing)
    /\ LET r == ProcessEntry(variant, RunState, listing[idx])
       IN /\ acc' = r.acc
          /\ stdout' = r.stdout
          /\ opened' = r.opened
          /\ err' = r.err
          /\ pc' = IF r.err = NoError THEN "loop" ELSE "aborted"
    /\ idx' = idx + 1
    /\ UNCHANGED <<variant, env, dir, run, listing, out, firstOut, firstListing>>

\* open(output, "w"), json.dump, and the completion line.
WriteOutput ==
    /\ pc = "loop"
    /\ idx > Len(listing)
    /\ IF env.destWritable
       THEN /\ out' = DumpAccumulator(variant, acc)
            /\ dir' = IF DestInSource(variant)
                      THEN {e \in dir : e.name # OutputName(variant)}
                           \cup {File(OutputName(variant), DumpAccumulator(variant, acc))}
                      ELSE dir
            /\ stdout' = Append(stdout, CompletionLine(variant, RunState))
            /\ pc' = "done"
            /\ err' = err
       ELSE /\ pc' = "aborted"
            /\ err' = "PermissionError"
            /\ UNCHANGED <<out, dir, stdout>>
    /\ UNCHANGED <<variant, env, run, listing, idx, acc, opened, firstOut, firstListing>>

\* The script is started again on the directory as the first run left it.
Rerun ==
    /\ pc \in {"done", "aborted"}
    /\ run = "first"
    /\ Len(listing) <= MaxRerunEntries
    /\ run' = "second"
    /\ firstOut' = out
    /\ firstListing' = listing
    /\ pc' = "start"
    /\ listing' = <<>>
    /\ idx' = 1
    /\ acc' = <<>>
    /\ stdout' = <<>>
    /\ opened' = {}
    /\ err' = NoError
    /\ UNCHANGED <<variant, env, dir, out>>

Next == ListDir \/ LoopStep \/ WriteOutput \/ Rerun

Spec == Init /\ [][Next]_vars

(***************************************************************************)
(* Vocabulary of the properties                                            *)
(***************************************************************************)
Finished == pc \in {"done", "aborted"}

\* The last five characters of the name are exactly . j s o n
HasJsonSuffix(n) ==
    /\ Len(n) >= 5
    /\ n[Len(n) - 4] = "."
    /\ n[Len(n) - 3] = "j"
    /\ n[Len(n) - 2] = "s"
    /\ n[Len(n) - 1] = "o"
    /\ n[Len(n)] = "n"

IsJsonFile(e) == HasJsonSuffix(e.name) /\ e.kind = "file"
IsMalformed(e) == IsJsonFile(e) /\ "bad" \in DOMAIN e.text
IsParsed(e) == IsJsonFile(e) /\ "bad" \notin DOMAIN e.text
IsMapping(e) == IsParsed(e) /\ "obj" \in DOMAIN e.text
IsSequence(e) == IsParsed(e) /\ "arr" \in DOMAIN e.text
IsScalar(e) == IsParsed(e) /\ ("num" \in DOMAIN e.text \/ "null" \in DOMAIN e.text)

Processed == SubSeq(listing, 1, idx - 1)

Where(l, P(_)) == SelectSeq(l, P)
Without(l, P(_)) == LET Keep(e) == ~P(e) IN SelectSeq(l, Keep)
Some(l, P(_)) == \E i \in 1..Len(l) : P(l[i])

IsDiagnostic(line) == "skipped" \in DOMAIN line
Diagnostics == SelectSeq(stdout, IsDiagnostic)

EmptyRun == [acc |-> <<>>, stdout |-> <<>>, opened |-> {}, err |-> NoError]

\* The loop of the script run on the listing l, from the empty accumulator.
RECURSIVE FoldEntries(_, _, _)
FoldEntries(v, st, l) ==
    IF l = <<>> \/ st.err # NoError THEN st
    ELSE FoldEntries(v, ProcessEntry(v, st, l[1]), Tail(l))

\* The finished run ended as a run over the listing l ends: the same
\* exception, or the same written output and the same completion line.
SameResultAs(l) ==
    LET f == FoldEntries(variant, EmptyRun, l)
    IN IF f.err # NoError THEN pc = "aborted" /\ err = f.err
       ELSE IF ~env.destWritable THEN pc = "aborted" /\ err = "PermissionError"
       ELSE /\ pc = "done"
            /\ out = DumpAccumulator(variant, f.acc)
            /\ stdout[Len(stdout)] =
                 IF variant = "union" THEN [mergedAll |-> TRUE] ELSE [merged |-> Len(f.acc)]

SameDiagnosticsAs(l) == Diagnostics = FoldEntries(variant, EmptyRun, l).stdout

\* The written output, read back.
OutValue == Loads(out)

RECURSIVE Concat(_)
Concat(ls) == IF ls = <<>> THEN <<>> ELSE Loads(ls[1].text).list \o Concat(Tail(ls))

\* The index of the last mapping-shaped file of l that has the key k (0: none).
LastWith(l, k) ==
    LET S == {i \in 1..Len(l) : IsMapping(l[i]) /\ HasKey(Loads(l[i].text).dict, k)}
    IN IF S = {} THEN 0 ELSE CHOOSE i \in S : \A j \in S : j <= i

KeysOf(l) ==
    {m[1] : m \in UNION { {l[i].text.obj[j] : j \in 1..Len(l[i].text.obj)} :
                          i \in {n \in 1..Len(l) : IsMapping(l[n])} } }

(***************************************************************************)
(* Properties                                                              *)
(***************************************************************************)

\* C1: in the output written by merge.py, every key that occurs in a
\* mapping-shaped .json file has the whole value it has in the last such
\* file in processing order.
C1_OverwriteLaw ==
    (variant = "union" /\ pc = "done") =>
        \A k \in KeysOf(listing) :
            /\ HasKey(OutValue.dict, k)
            /\ Get(OutValue.dict, k) =
                 Get(Loads(listing[LastWith(listing, k)].text).dict, k)

\* C2: when the directory holds a sequence-shaped file, the output written
\* by merge.py has under "merged_list" the concatenation, in processing
\* order, of the sequence-shaped files.
C2_ListConcatenation ==
    (variant = "union" /\ pc = "done" /\ Some(listing, IsSequence)) =>
        /\ HasKey(OutValue.dict, ReservedKey)
        /\ Get(OutValue.dict, ReservedKey) =
             [list |-> Concat(Where(listing, IsSequence))]

\* C3: the array written by merge_json.py is the sequence of the parsed
\* values of the successfully parsed .json files, in listing order, each
\* value whole.
C3_ListCollection ==
    (variant = "list" /\ pc = "done") =>
        LET ok == Where(listing, IsParsed)
        IN OutValue = [list |-> [i \in 1..Len(ok) |-> Loads(ok[i].text)]]

C3_Witness ==
    /\ variant = "list" /\ pc = "done"
    /\ Len(Where(listing, IsParsed)) >= 2
    /\ Some(listing, IsSequence) /\ Some(listing, IsScalar)

\* C4: the diagnostics printed so far name exactly the malformed .json
\* files processed so far, one line each, and a finished run ends as the
\* run over the same listing without the malformed files ends.
C4_SkipMalformed ==
    /\ Diagnostics =
         LET bad == Where(Processed, IsMalformed)
         IN [i \in 1..Len(bad) |-> [skipped |-> bad[i].name]]
    /\ (Finished /\ env.srcExists) => SameResultAs(Without(listing, IsMalformed))

C4_Witness ==
    /\ pc = "done" /\ Len(Diagnostics) = 1
    /\ IsMalformed(listing[1]) /\ Len(listing) = 3
    /\ IsParsed(listing[2]) /\ IsParsed(listing[3])
    /\ acc # <<>>

\* C5: the count merge_json.py prints is the number of successfully parsed
\* .json files and the length of the written array.
C5_CountAccuracy ==
    (variant = "list" /\ pc = "done") =>
        /\ stdout[Len(stdout)] = [merged |-> Len(Where(listing, IsParsed))]
        /\ stdout[Len(stdout)] = [merged |-> Len(out.arr)]

C5_Witness ==
    /\ variant = "list" /\ pc = "done"
    /\ Some(listing, IsMalformed)
    /\ Len(out.arr) >= 1
    /\ Len(out.arr) < Len(listing)

\* C6: with the source directory present and the destination writable, no
\* run ends in an unhandled error.
C6_NormalCompletion ==
    (env.srcExists /\ env.destWritable) => pc # "aborted"

\* C7 as stated: when both runs over the unchanged directory write their
\* output, the second output is the first, whatever the order of the
\* listing (no mapping file uses the key "merged_list").
C7_Idempotence ==
    LET UsesReserved(e) == IsMapping(e) /\ HasKey(Loads(e.text).dict, ReservedKey)
    IN (run = "second" /\ pc = "done" /\ firstOut # NoFile
          /\ ~Some(listing, UsesReserved)) => out = firstOut

\* C7 amended: the second run lists the entries the first run listed (the
\* first run's output is not among them), and when it lists them in the
\* same order it leaves the output file as the first run left it.
C7_IdempotenceSameOrder ==
    (run = "second" /\ pc # "start" /\ env.srcExists) =>
        /\ {listing[i] : i \in 1..Len(listing)} =
             {firstListing[i] : i \in 1..Len(firstListing)}
        /\ (Finished /\ listing = firstListing) => out = firstOut

C7_Witness ==
    /\ run = "second" /\ pc = "done"
    /\ listing = firstListing /\ Len(listing) >= 2
    /\ Some(listing, IsParsed)
    /\ out # NoFile /\ out = firstOut

\* C8: only names with the exact suffix .json are opened, and a finished run
\* ends, and prints the diagnostics, as the run over the listing without the
\* other entries does.
C8_ExtensionFilter ==
    /\ \A n \in opened : HasJsonSuffix(n)
    /\ (Finished /\ env.srcExists) =>
         LET IsOther(e) == ~HasJsonSuffix(e.name)
         IN /\ SameResultAs(Without(listing, IsOther))
            /\ SameDiagnosticsAs(Without(listing, IsOther))

C8_Witness ==
    /\ pc = "done" /\ acc # <<>>
    /\ Some(listing, LAMBDA e : e = File(NameNotes, TextDupKey))
    /\ Some(listing, LAMBDA e : e = File(NameUpper, TextDupKey))
    /\ opened # {}

\* C9: with the destination writable, a finished run ends, and prints the
\* diagnostics, as the run over the listing without the subdirectories does.
C9_SubdirsIgnored ==
    (Finished /\ env.srcExists /\ env.destWritable) =>
        LET IsDir(e) == e.kind = "dir"
        IN /\ SameResultAs(Without(listing, IsDir))
           /\ SameDiagnosticsAs(Without(listing, IsDir))

\* C10: a finished run of merge.py ends, and prints the diagnostics, as the
\* run over the listing without the top-level scalar files does.
C10_ScalarsDropped ==
    (variant = "union" /\ Finished /\ env.srcExists) =>
        /\ SameResultAs(Without(listing, IsScalar))
        /\ SameDiagnosticsAs(Without(listing, IsScalar))

C10_Witness ==
    /\ variant = "union" /\ pc = "done"
    /\ Some(listing, IsScalar)
    /\ Some(listing, IsMapping)
    /\ acc # <<>> /\ Diagnostics = <<>>

====
